---- MODULE Spec2Model ----
(***************************************************************************)
(* Provider gateway of prompt-craft: the provider registry and factory of  *)
(* src/providers/factory.ts together with the configuration checks of the  *)
(* three provider constructors (groq.ts, openai.ts, azure-openai.ts).      *)
(*                                                                         *)
(* Strings are sequences of characters, so that String.trim() is computed  *)
(* and not assumed.  A configuration value that is absent (undefined) and  *)
(* one that is the empty string are both falsy in every test the code      *)
(* makes, and are both modelled by the empty sequence.                     *)
(*                                                                         *)
(* The second half models one provider instance (base.ts and the three     *)
(* provider classes): its completion requests with their error handling,   *)
(* the token cache of the Azure provider and the health record.  A         *)
(* provider record carries the timeout of its HTTP client; a request       *)
(* carries its model and the URL of its POST.                              *)
(***************************************************************************)
EXTENDS Integers, Sequences, FiniteSets, TLC

VARIABLES providers, activeProvider, settings, env, last, pc, picked

\* one provider instance: the object, its config bag, token cache and health
\* record, the clock, the machine's az CLI, the requests in flight and the
\* request that finished last
VARIABLES prov, provConfig, cachedToken, health, now, azEnv, rpc, rq, done

\* history of the instance: the number of tokens issued so far, the
\* (token, expiry) pair produced by the fetch that finished last,
\* the tokens issued before the latest clearTokenCache, whether no request
\* has started since that clear, whether a checkHealth has completed
VARIABLES issued, lastFetch, stale, awaitNext, checked

instVars == <<prov, provConfig, cachedToken, health, now, azEnv, rpc, rq, done,
              issued, lastFetch, stale, awaitNext, checked>>

vars == <<providers, activeProvider, settings, env, last, pc, picked, instVars>>

regVars == <<providers, activeProvider>>

----------------------------------------------------------------------------
(* Strings *)

EMPTY == <<>>

IsSpace(c) == c = " "

RECURSIVE TrimStart(_)
TrimStart(s) ==
    IF s = <<>> THEN <<>>
    ELSE IF IsSpace(Head(s)) THEN TrimStart(Tail(s)) ELSE s

RECURSIVE TrimEnd(_)
TrimEnd(s) ==
    IF s = <<>> THEN <<>>
    ELSE IF IsSpace(s[Len(s)]) THEN TrimEnd(SubSeq(s, 1, Len(s) - 1)) ELSE s

\* String.prototype.trim
Trim(s) == TrimEnd(TrimStart(s))

\* JavaScript truthiness of a string (undefined and '' are falsy)
Truthy(s) == s # <<>>

\* a || b on strings
OrElse(a, b) == IF Truthy(a) THEN a ELSE b

\* s.trim().length > 0
NonBlank(s) == Len(Trim(s)) > 0

\* a || b on numbers (undefined and 0 are falsy; an absent number is 0)
NumOrElse(a, b) == IF a # 0 THEN a ELSE b

----------------------------------------------------------------------------
(* Provider types (enum ProviderType) *)

GROQ == "groq"
OPENAI == "openai"
AZURE_OPENAI == "azure-openai"
CLAUDE == "claude"

\* the null of `activeProvider: ProviderType | null`
NULL == "null"

\* the null / undefined a lookup returns instead of a provider
NoProvider == [type |-> NULL]

\* thrown by a constructor
Threw == [type |-> "threw"]

\* OpenAIProvider.getAvailableModels, by representatives
OpenAIModels == {<<"gpt-4">>, <<"gpt-4-turbo">>}

\* the endpoints `new URL(endpoint)` accepts, by representatives: an origin
\* and any number of slashes after it
IsValidURL(s) ==
    LET t == Trim(s)
    IN /\ t # <<>>
       /\ t[1] = "https://host"
       /\ \A i \in 2..Len(t) : t[i] = "/"

----------------------------------------------------------------------------
(* Provider instances: the private fields the constructors set *)

\* GroqProvider.isConfigured / OpenAIProvider.isConfigured
KeyConfigured(p) == Len(Trim(p.apiKey)) > 0

\* isConfigured without its test of the key under the apiKey strategy
AzureConfigured_ignoresKey(p) ==
    IF ~Truthy(p.endpoint) \/ ~Truthy(p.deploymentName) THEN FALSE
    ELSE p.authMethod \in {"apiKey", "azureCli", "managedIdentity"}

\* AzureOpenAIProvider.isConfigured
AzureConfigured(p) ==
    IF ~Truthy(p.endpoint) \/ ~Truthy(p.deploymentName) THEN FALSE
    ELSE CASE p.authMethod = "apiKey" -> Len(Trim(p.apiKey)) > 0
           [] p.authMethod = "azureCli" -> TRUE
           [] p.authMethod = "managedIdentity" -> TRUE
           [] OTHER -> FALSE

\* LLMProvider.isConfigured, dispatched on the concrete class
isConfigured(p) ==
    CASE p.type = GROQ -> KeyConfigured(p)
      [] p.type = OPENAI -> KeyConfigured(p)
      [] p.type = AZURE_OPENAI -> AzureConfigured(p)
      [] OTHER -> FALSE

\* new GroqProvider(config): validateConfig never throws; `timeout` is the
\* timeout of the axios instance the constructor creates
GroqProvider(config, e) ==
    [type |-> GROQ,
     apiKey |-> OrElse(config.apiKey, e.GROQ_API_KEY),
     timeout |-> config.timeout]

\* OpenAIProvider.validateConfig: TRUE when it throws
OpenAIValidateThrows(apiKey, defaultModel) ==
    IF ~Truthy(apiKey) \/ Len(Trim(apiKey)) = 0 THEN FALSE
    ELSE Truthy(defaultModel) /\ defaultModel \notin OpenAIModels

\* new OpenAIProvider(config)
OpenAIProvider(config, e) ==
    LET apiKey == OrElse(config.apiKey, e.OPENAI_API_KEY)
        defaultModel == OrElse(config.model, <<"gpt-4-turbo">>)
    IN IF OpenAIValidateThrows(apiKey, defaultModel) THEN Threw
       ELSE [type |-> OPENAI, apiKey |-> apiKey, defaultModel |-> defaultModel,
             timeout |-> NumOrElse(config.timeout, 30000)]

\* AzureOpenAIProvider.validateConfig: TRUE when it throws
AzureValidateThrows(endpoint, apiKey, deploymentName, authMethod) ==
    IF ~Truthy(endpoint) \/ Len(Trim(endpoint)) = 0 THEN TRUE
    ELSE IF ~Truthy(deploymentName) \/ Len(Trim(deploymentName)) = 0 THEN TRUE
    ELSE IF authMethod = "apiKey" /\ (~Truthy(apiKey) \/ Len(Trim(apiKey)) = 0)
         THEN FALSE
    ELSE ~IsValidURL(endpoint)

\* new AzureOpenAIProvider(config)
AzureOpenAIProvider(config) ==
    LET apiKey == OrElse(config.apiKey, EMPTY)
        authMethod == IF config.authMethod = "" THEN "apiKey" ELSE config.authMethod
    IN IF AzureValidateThrows(config.endpoint, apiKey, config.deploymentName, authMethod)
       THEN Threw
       ELSE [type |-> AZURE_OPENAI, endpoint |-> config.endpoint, apiKey |-> apiKey,
             deploymentName |-> config.deploymentName, authMethod |-> authMethod,
             apiVersion |-> OrElse(config.apiVersion, <<"2024-02-01">>),
             timeout |-> NumOrElse(config.timeout, 30000)]

----------------------------------------------------------------------------
(* ProviderRegistry: a Map in insertion order and the active pointer.      *)
(* A registry value is [providers |-> sequence, activeProvider |-> type].  *)

\* index of the entry keyed t, 0 when there is none
IndexOf(ps, t) ==
    IF \E i \in 1..Len(ps) : ps[i].type = t
    THEN CHOOSE i \in 1..Len(ps) : ps[i].type = t
    ELSE 0

\* Map.prototype.set: a present key keeps its position
MapSet(ps, p) ==
    IF IndexOf(ps, p.type) = 0 THEN Append(ps, p)
    ELSE [ps EXCEPT ![IndexOf(ps, p.type)] = p]

\* ProviderRegistry.register
register(reg, p) == [reg EXCEPT !.providers = MapSet(reg.providers, p)]

\* ProviderRegistry.get
get(reg, t) ==
    IF IndexOf(reg.providers, t) = 0 THEN NoProvider
    ELSE reg.providers[IndexOf(reg.providers, t)]

\* ProviderRegistry.getAll
getAll(reg) == reg.providers

\* ProviderRegistry.getConfigured
getConfigured(reg) == SelectSeq(getAll(reg), isConfigured)

\* setActive without its isConfigured() test
setActive_skipsConfigured(reg, t) ==
    IF IndexOf(reg.providers, t) = 0 THEN [reg |-> reg, ret |-> FALSE]
    ELSE [reg |-> [reg EXCEPT !.activeProvider = t], ret |-> TRUE]

\* ProviderRegistry.setActive: the registry afterwards and the value returned
setActive(reg, t) ==
    LET provider == get(reg, t)
    IN IF provider = NoProvider THEN [reg |-> reg, ret |-> FALSE]
       ELSE IF ~isConfigured(provider) THEN [reg |-> reg, ret |-> FALSE]
       ELSE [reg |-> [reg EXCEPT !.activeProvider = t], ret |-> TRUE]

\* getActive returning its lazy selection without recording it
getActive_doesNotRecord(reg) ==
    IF reg.activeProvider = NULL
    THEN LET configured == SelectSeq(reg.providers, isConfigured)
         IN IF Len(configured) > 0 THEN [reg |-> reg, ret |-> configured[1]]
            ELSE [reg |-> reg, ret |-> NoProvider]
    ELSE [reg |-> reg,
          ret |-> IF IndexOf(reg.providers, reg.activeProvider) = 0 THEN NoProvider
                  ELSE reg.providers[IndexOf(reg.providers, reg.activeProvider)]]

\* getActive without its test of the recorded active type
getActive_alwaysReselects(reg) ==
    LET configured == SelectSeq(reg.providers, isConfigured)
    IN IF Len(configured) > 0
       THEN [reg |-> [reg EXCEPT !.activeProvider = configured[1].type],
             ret |-> configured[1]]
       ELSE [reg |-> reg, ret |-> NoProvider]

\* ProviderRegistry.getActive: the registry afterwards and the value returned
getActive(reg) ==
    IF reg.activeProvider = NULL
    THEN LET configured == getConfigured(reg)
         IN IF Len(configured) > 0
            THEN [reg |-> [reg EXCEPT !.activeProvider = configured[1].type],
                  ret |-> configured[1]]
            ELSE [reg |-> reg, ret |-> NoProvider]
    ELSE [reg |-> reg, ret |-> get(reg, reg.activeProvider)]

\* ProviderRegistry.getActiveType
getActiveType(reg) == reg.activeProvider

\* clear that empties the mapping only
clear_keepsActive(reg) == [reg EXCEPT !.providers = <<>>]

\* ProviderRegistry.clear
clear(reg) == [providers |-> <<>>, activeProvider |-> NULL]

\* the registry before anything was registered (ProviderRegistry constructor)
EmptyRegistry == [providers |-> <<>>, activeProvider |-> NULL]

----------------------------------------------------------------------------
(* ProviderFactory.  A run that a constructor aborts by throwing keeps the *)
(* registrations made before the throw; `threw` reports the exception.     *)

\* the Groq section of initializeFromSettings (factory.ts 119-131)
InitGroq(reg, config, e) ==
    IF Truthy(config.groqApiKey) /\ NonBlank(config.groqApiKey)
    THEN [reg |-> register(reg,
                          GroqProvider([apiKey |-> config.groqApiKey,
                                        timeout |-> NumOrElse(config.requestTimeoutMs, 5000)],
                                       e)),
          threw |-> FALSE]
    ELSE [reg |-> reg, threw |-> FALSE]

\* the OpenAI section of initializeFromSettings (factory.ts 133-147)
InitOpenAI(reg, config, e) ==
    IF Truthy(config.openaiApiKey) /\ NonBlank(config.openaiApiKey)
    THEN LET p == OpenAIProvider([apiKey |-> config.openaiApiKey,
                                  model |-> OrElse(config.openaiModel, <<"gpt-4-turbo">>),
                                  timeout |-> NumOrElse(config.openaiTimeout, 30000)], e)
         IN IF p = Threw THEN [reg |-> reg, threw |-> TRUE]
            ELSE [reg |-> register(reg, p), threw |-> FALSE]
    ELSE [reg |-> reg, threw |-> FALSE]

\* the guard of the Azure section (factory.ts 157)
AzureSectionPresent(config) ==
    /\ Truthy(config.azureEndpoint)
    /\ NonBlank(config.azureEndpoint)
    /\ Truthy(config.azureDeploymentName)

\* the Azure section of initializeFromSettings (factory.ts 149-170)
InitAzure(reg, config) ==
    IF AzureSectionPresent(config)
    THEN LET p == AzureOpenAIProvider(
                      [endpoint |-> config.azureEndpoint,
                       apiKey |-> OrElse(config.azureApiKey, EMPTY),
                       deploymentName |-> config.azureDeploymentName,
                       authMethod |-> IF config.azureAuthMethod = "" THEN "apiKey"
                                      ELSE config.azureAuthMethod,
                       apiVersion |-> OrElse(config.azureApiVersion, <<"2024-02-01">>),
                       timeout |-> NumOrElse(config.azureTimeout, 30000)])
         IN IF p = Threw THEN [reg |-> reg, threw |-> TRUE]
            ELSE [reg |-> register(reg, p), threw |-> FALSE]
    ELSE [reg |-> reg, threw |-> FALSE]

\* the resolution without the explicit setting: always the first configured
ResolveActive_ignoresSetting(reg, config) ==
    LET configured == SelectSeq(reg.providers, isConfigured)
    IN IF Len(configured) > 0 THEN [reg EXCEPT !.activeProvider = configured[1].type]
       ELSE reg

\* the active-provider resolution of initializeFromSettings (factory.ts 172-182)
ResolveActive(reg, config) ==
    IF config.activeProvider # ""
    THEN setActive(reg, config.activeProvider).reg
    ELSE LET configured == getConfigured(reg)
         IN IF Len(configured) > 0 THEN setActive(reg, configured[1].type).reg
            ELSE reg

\* a run that goes on to the active-provider resolution after a throw
initializeFromSettings_resolvesAfterThrow(reg, config, e) ==
    LET g == InitGroq(reg, config, e)
        o == InitOpenAI(g.reg, config, e)
        a == InitAzure(o.reg, config)
    IN [reg |-> ResolveActive(IF o.threw THEN o.reg ELSE a.reg, config),
        threw |-> o.threw \/ a.threw]

\* ProviderFactory.initializeFromSettings
initializeFromSettings(reg, config, e) ==
    LET g == InitGroq(reg, config, e)
        o == InitOpenAI(g.reg, config, e)
        a == InitAzure(o.reg, config)
    IN IF o.threw THEN [reg |-> o.reg, threw |-> TRUE]
       ELSE IF a.threw THEN [reg |-> a.reg, threw |-> TRUE]
       ELSE [reg |-> ResolveActive(a.reg, config), threw |-> FALSE]

\* reload without its clear()
reload_withoutClear(reg, config, e) == initializeFromSettings(reg, config, e)

\* ProviderFactory.reload: initializeFromSettings has no await of its own, so
\* the clear and the whole run happen in one turn of the event loop
reload(reg, config, e) == initializeFromSettings(clear(reg), config, e)

----------------------------------------------------------------------------
(* Inputs *)

Types == {GROQ, OPENAI, AZURE_OPENAI, CLAUDE}

\* process.env as the constructors read it
EnvInputs ==
    {[GROQ_API_KEY |-> g, OPENAI_API_KEY |-> o] :
        g \in {<<>>, <<"g">>}, o \in {<<>>, <<"o">>}}

\* the environment of the registry specification
SmallEnvInputs == {e \in EnvInputs : e.OPENAI_API_KEY = <<>>}

\* the longest key the factory specification reads
MaxKeyLen == 1

\* every string of spaces and key characters no longer than n
RECURSIVE StringsUpTo(_)
StringsUpTo(n) ==
    IF n = 0 THEN {<<>>}
    ELSE LET shorter == StringsUpTo(n - 1)
         IN shorter \cup {Append(s, c) : s \in shorter, c \in {" ", "k"}}

KeyInputs == StringsUpTo(MaxKeyLen)

\* the promptCraft configuration section, one record per reading; the
\* timeouts and the API version are left unset
SettingsOver(keys, models, endpoints, azkeys, deployments, auths, actives) ==
    [groqApiKey : keys, openaiApiKey : keys, openaiModel : models,
     azureEndpoint : endpoints, azureApiKey : azkeys,
     azureDeploymentName : deployments, azureAuthMethod : auths,
     activeProvider : actives,
     requestTimeoutMs : {0}, openaiTimeout : {0}, azureTimeout : {0},
     azureApiVersion : {<<>>}]

\* the settings the registry specification moves between
SmallSettings ==
    SettingsOver({<<>>, <<"k">>}, {<<>>}, {<<>>, <<"https://host">>}, {<<>>},
                 {<<"d">>}, {"azureCli"}, {"", OPENAI})

\* the providers host code constructs and hands to register()
\* the settings the factory specification starts from
FactorySettings ==
    SettingsOver(KeyInputs, {<<>>, <<"bad">>},
                 {<<>>, <<" ">>, <<"host">>, <<"https://host">>}, {<<>>, <<"a">>},
                 {<<>>, <<" ">>, <<"d">>}, {"", "azureCli", "bogus"},
                 {"", GROQ, OPENAI, AZURE_OPENAI, CLAUDE})

RegisterInputs(e) ==
    {GroqProvider([apiKey |-> k, timeout |-> 5000], e) : k \in {<<>>, <<"k">>}}
    \cup {OpenAIProvider([apiKey |-> k, model |-> <<>>, timeout |-> 30000], e) :
             k \in {<<>>, <<"k">>}}
    \cup {AzureOpenAIProvider([endpoint |-> <<"https://host">>, apiKey |-> <<>>,
                               deploymentName |-> <<"d">>, authMethod |-> a,
                               apiVersion |-> <<>>, timeout |-> 30000]) :
             a \in {"apiKey", "azureCli"}}

----------------------------------------------------------------------------
(* State.  `last` records the operation that ran last: its name, its type  *)
(* argument, its provider argument, the boolean it returned, the provider  *)
(* it returned, the list it returned, and the active pointer as it was     *)
(* when the operation began.                                               *)

Call(op, t, p, ok, out, list) ==
    [op |-> op, type |-> t, prov |-> p, ok |-> ok, out |-> out, list |-> list,
     was |-> activeProvider]

reg == [providers |-> providers, activeProvider |-> activeProvider]

SetReg(r) ==
    /\ providers' = r.providers
    /\ activeProvider' = r.activeProvider

TypeOK ==
    /\ activeProvider \in Types \cup {NULL}
    /\ env \in EnvInputs
    /\ last.was \in Types \cup {NULL}

\* the registry when it was constructed; nothing has been called
InitRegistry ==
    /\ providers = <<>>
    /\ activeProvider = NULL
    /\ last = Call("new", NULL, NoProvider, TRUE, NoProvider, <<>>)

\* the sequential specifications run no host task
NoTasks ==
    /\ pc = <<>>
    /\ picked = <<>>

\* the registry specifications hold no provider instance of their own
NoInstance ==
    /\ prov = NoProvider
    /\ provConfig = [timeout |-> 0]
    /\ cachedToken = [accessToken |-> 0, expiresOn |-> 0]
    /\ health = [status |-> "unknown"]
    /\ now = 0
    /\ azEnv = [installed |-> FALSE, loggedIn |-> FALSE]
    /\ rpc = <<>>
    /\ rq = <<>>
    /\ done = [kind |-> "new"]
    /\ issued = 0
    /\ lastFetch = [accessToken |-> 0, expiresOn |-> 0]
    /\ stale = {}
    /\ awaitNext = FALSE
    /\ checked = FALSE

Init ==
    /\ InitRegistry
    /\ NoInstance
    /\ NoTasks
    /\ settings \in SmallSettings
    /\ env \in SmallEnvInputs

----------------------------------------------------------------------------
(* Operations of the sequential specification, one per call *)

Register(p) ==
    /\ SetReg(register(reg, p))
    /\ last' = Call("register", p.type, p, TRUE, NoProvider, <<>>)
    /\ UNCHANGED <<settings, env, pc, picked>>

Get(t) ==
    /\ last' = Call("get", t, NoProvider, TRUE, get(reg, t), <<>>)
    /\ UNCHANGED <<providers, activeProvider, settings, env, pc, picked>>

GetAll ==
    /\ last' = Call("getAll", NULL, NoProvider, TRUE, NoProvider, getAll(reg))
    /\ UNCHANGED <<providers, activeProvider, settings, env, pc, picked>>

GetConfigured ==
    /\ last' = Call("getConfigured", NULL, NoProvider, TRUE, NoProvider, getConfigured(reg))
    /\ UNCHANGED <<providers, activeProvider, settings, env, pc, picked>>

SetActive(t) ==
    /\ SetReg(setActive(reg, t).reg)
    /\ last' = Call("setActive", t, NoProvider, setActive(reg, t).ret, NoProvider, <<>>)
    /\ UNCHANGED <<settings, env, pc, picked>>

GetActive ==
    /\ SetReg(getActive(reg).reg)
    /\ last' = Call("getActive", NULL, NoProvider, TRUE, getActive(reg).ret, <<>>)
    /\ UNCHANGED <<settings, env, pc, picked>>

GetActiveType ==
    /\ last' = Call("getActiveType", getActiveType(reg), NoProvider, TRUE, NoProvider, <<>>)
    /\ UNCHANGED <<providers, activeProvider, settings, env, pc, picked>>

Clear ==
    /\ SetReg(clear(reg))
    /\ last' = Call("clear", NULL, NoProvider, TRUE, NoProvider, <<>>)
    /\ UNCHANGED <<settings, env, pc, picked>>

\* activate(): the one factory run that is not a reload, on the registry
\* as it was constructed (extension.ts 22)
InitializeFromSettings ==
    /\ last.op = "new"
    /\ SetReg(initializeFromSettings(reg, settings, env).reg)
    /\ last' = Call("initializeFromSettings", NULL, NoProvider,
                    ~initializeFromSettings(reg, settings, env).threw, NoProvider, <<>>)
    /\ UNCHANGED <<settings, env, pc, picked>>

Reload ==
    /\ SetReg(reload(reg, settings, env).reg)
    /\ last' = Call("reload", NULL, NoProvider,
                    ~reload(reg, settings, env).threw, NoProvider, <<>>)
    /\ UNCHANGED <<settings, env, pc, picked>>

\* the user edits one setting; nothing reads it before the next reload
ChangeSettings(c) ==
    /\ Cardinality({f \in DOMAIN settings : c[f] # settings[f]}) = 1
    /\ settings' = c
    /\ last' = Call("changeSettings", NULL, NoProvider, TRUE, NoProvider, <<>>)
    /\ UNCHANGED <<providers, activeProvider, env, pc, picked>>

Next ==
    /\ UNCHANGED instVars
    /\ \/ \E p \in RegisterInputs(env) : Register(p)
       \/ \E t \in Types : Get(t)
       \/ GetAll
       \/ GetConfigured
       \/ \E t \in Types : SetActive(t)
       \/ GetActive
       \/ GetActiveType
       \/ Clear
       \/ InitializeFromSettings
       \/ Reload
       \/ \E c \in SmallSettings : ChangeSettings(c)

Spec == Init /\ [][Next]_vars

----------------------------------------------------------------------------
(* The factory specification: one reading of the settings, drawn from the  *)
(* whole of FactorySettings, and the factory runs made on it.              *)

InitFactory ==
    /\ InitRegistry
    /\ NoInstance
    /\ NoTasks
    /\ settings \in FactorySettings
    /\ env \in EnvInputs

NextFactory ==
    /\ UNCHANGED instVars
    /\ \/ InitializeFromSettings
       \/ Reload
       \/ GetActive
       \/ \E t \in Types : SetActive(t)

SpecFactory == InitFactory /\ [][NextFactory]_vars

----------------------------------------------------------------------------
(* The concurrent specification: host tasks running the command handlers   *)
(* of extension.ts and direct registry calls on one event loop.  A task    *)
(* runs from one await to the next without interruption; pc[t] is where    *)
(* task t stands and picked[t] what it holds in its local variables.       *)

MaxTasks == 2

Tasks == 1..MaxTasks

\* the await points had reload() awaited between its clear() and its run
AwaitPoints_withClearedReload ==
    {"idle", "select_pick", "test_await", "reload_await", "reload_cleared"}

\* the places a suspended task can stand at: idle, and the awaits of
\* handleSelectProvider, handleTestProvider and handleReloadProviders.
\* "reload_cleared", between the clear() and the factory run of reload(),
\* is not among them: reload() awaits only after initializeFromSettings
\* has run to its end.
AwaitPoints == {"idle", "select_pick", "test_await", "reload_await"}

\* task t may take a step: no other task is in the middle of a turn
CanRun(t) == \A u \in Tasks \ {t} : pc[u] \in AwaitPoints

ConcSettings ==
    SettingsOver({<<>>, <<"k">>}, {<<>>, <<"bad">>}, {<<>>}, {<<>>},
                 {<<>>}, {""}, {""})

ConcRegisterInputs(e) ==
    {GroqProvider([apiKey |-> k, timeout |-> 5000], e) : k \in {<<>>, <<"k">>}}

InitConc ==
    /\ InitRegistry
    /\ NoInstance
    /\ pc = [t \in Tasks |-> "idle"]
    /\ picked = [t \in Tasks |-> <<>>]
    /\ settings \in ConcSettings
    /\ env \in {[GROQ_API_KEY |-> <<>>, OPENAI_API_KEY |-> <<>>]}

\* a direct registry call made by an idle task, in one turn
DirectCall(t) ==
    /\ pc[t] = "idle"
    /\ CanRun(t)
    /\ \/ \E p \in ConcRegisterInputs(env) : Register(p)
       \/ \E ty \in {GROQ, OPENAI} : SetActive(ty)
       \/ GetActive
       \/ Clear

\* handleSelectProvider up to its await (extension.ts 387-405)
SelectStart(t) ==
    /\ pc[t] = "idle"
    /\ CanRun(t)
    /\ last' = Call("getAll", NULL, NoProvider, TRUE, NoProvider, getAll(reg))
    /\ IF Len(getAll(reg)) = 0
       THEN UNCHANGED <<pc, picked>>
       ELSE /\ pc' = [pc EXCEPT ![t] = "select_pick"]
            /\ picked' = [picked EXCEPT ![t] = getAll(reg)]
    /\ UNCHANGED <<providers, activeProvider, settings, env>>

\* updateStatusBar (extension.ts 132-152): its getActive() call
updateStatusBar(r) == getActive(r).reg

\* handleSelectProvider after its await (extension.ts 411-434); i = 0 is the
\* dismissed pick
SelectFinish(t, i) ==
    /\ pc[t] = "select_pick"
    /\ CanRun(t)
    /\ i \in 0..Len(picked[t])
    /\ pc' = [pc EXCEPT ![t] = "idle"]
    /\ picked' = [picked EXCEPT ![t] = <<>>]
    /\ IF i = 0 \/ ~isConfigured(picked[t][i])
       THEN /\ last' = Call("noSelection", NULL, NoProvider, TRUE, NoProvider, <<>>)
            /\ UNCHANGED <<providers, activeProvider>>
       ELSE LET r == setActive(reg, picked[t][i].type)
            IN /\ last' = Call("setActive", picked[t][i].type, NoProvider, r.ret,
                               NoProvider, <<>>)
               /\ SetReg(IF r.ret THEN updateStatusBar(r.reg) ELSE r.reg)
    /\ UNCHANGED <<settings, env>>

\* handleTestProvider up to its await (extension.ts 436-454): the completion
\* request of checkHealth() is in flight afterwards
TestStart(t) ==
    /\ pc[t] = "idle"
    /\ CanRun(t)
    /\ SetReg(getActive(reg).reg)
    /\ last' = Call("getActive", NULL, NoProvider, TRUE, getActive(reg).ret, <<>>)
    /\ IF getActive(reg).ret = NoProvider
       THEN UNCHANGED <<pc, picked>>
       ELSE /\ pc' = [pc EXCEPT ![t] = "test_await"]
            /\ picked' = [picked EXCEPT ![t] = <<getActive(reg).ret>>]
    /\ UNCHANGED <<settings, env>>

\* handleTestProvider after its await (extension.ts 456-469)
TestFinish(t) ==
    /\ pc[t] = "test_await"
    /\ CanRun(t)
    /\ pc' = [pc EXCEPT ![t] = "idle"]
    /\ picked' = [picked EXCEPT ![t] = <<>>]
    /\ last' = Call("checkHealth", NULL, picked[t][1], TRUE, NoProvider, <<>>)
    /\ UNCHANGED <<providers, activeProvider, settings, env>>

\* reload(): this.registry.clear() (factory.ts 228)
ReloadClear(t) ==
    /\ pc[t] = "idle"
    /\ CanRun(t)
    /\ SetReg(clear(reg))
    /\ pc' = [pc EXCEPT ![t] = "reload_cleared"]
    /\ last' = Call("clear", NULL, NoProvider, TRUE, NoProvider, <<>>)
    /\ UNCHANGED <<picked, settings, env>>

\* reload(): this.initializeFromSettings() up to the await (factory.ts 229)
ReloadInit(t) ==
    /\ pc[t] = "reload_cleared"
    /\ CanRun(t)
    /\ SetReg(initializeFromSettings(reg, settings, env).reg)
    /\ pc' = [pc EXCEPT ![t] = "reload_await"]
    /\ picked' = [picked EXCEPT ![t] =
                    IF initializeFromSettings(reg, settings, env).threw
                    THEN <<Threw>> ELSE <<>>]
    /\ last' = Call("reload", NULL, NoProvider,
                    ~initializeFromSettings(reg, settings, env).threw, NoProvider, <<>>)
    /\ UNCHANGED <<settings, env>>

\* handleReloadProviders after its await (extension.ts 476-489)
ReloadResume(t) ==
    /\ pc[t] = "reload_await"
    /\ CanRun(t)
    /\ pc' = [pc EXCEPT ![t] = "idle"]
    /\ picked' = [picked EXCEPT ![t] = <<>>]
    /\ IF picked[t] = <<Threw>>
       THEN /\ last' = Call("reloadFailed", NULL, NoProvider, FALSE, NoProvider, <<>>)
            /\ UNCHANGED <<providers, activeProvider>>
       ELSE /\ last' = Call("getActive", NULL, NoProvider, TRUE, getActive(reg).ret, <<>>)
            /\ SetReg(updateStatusBar(reg))
    /\ UNCHANGED <<settings, env>>

\* the user edits one setting while no task is in the middle of a turn
EditSettings(c) ==
    /\ \A u \in Tasks : pc[u] \in AwaitPoints
    /\ c \in ConcSettings
    /\ ChangeSettings(c)

NextConc ==
    /\ UNCHANGED instVars
    /\ \/ \E t \in Tasks : DirectCall(t)
       \/ \E t \in Tasks : SelectStart(t)
       \/ \E t \in Tasks : \E i \in 0..Len(picked[t]) : SelectFinish(t, i)
       \/ \E t \in Tasks : TestStart(t)
       \/ \E t \in Tasks : TestFinish(t)
       \/ \E t \in Tasks : ReloadClear(t)
       \/ \E t \in Tasks : ReloadInit(t)
       \/ \E t \in Tasks : ReloadResume(t)
       \/ \E c \in ConcSettings : EditSettings(c)

SpecConc == InitConc /\ [][NextConc]_vars

----------------------------------------------------------------------------
(* One provider instance and its requests.  Time is counted in seconds.    *)
(* An Error is the record of the parts handleError puts into its message:  *)
(* the provider name, the context, the message text as the source writes   *)
(* it, and the values interpolated into the text.                          *)

NoError == [name |-> "", context |-> "", text |-> "", arg |-> <<>>]

\* LLMProvider.getName of the concrete class
getName(p) ==
    CASE p.type = GROQ -> "Groq"
      [] p.type = OPENAI -> "OpenAI"
      [] p.type = AZURE_OPENAI -> "Azure OpenAI"

\* LLMProvider.handleError: the Error it throws
handleError(p, text, arg, context) ==
    [name |-> getName(p), context |-> context, text |-> text, arg |-> arg]

\* the message string of a thrown Error, as the sequence of its parts
Message(e) ==
    <<e.name, " - ">>
    \o (IF e.context # "" THEN <<e.context, ": ">> ELSE <<>>)
    \o <<e.text>> \o e.arg

\* What an HTTP call came to.  status is 0 and code names the axios error
\* when no response was received; code is "" when one was.  model is
\* data.model of the reply, empty when the reply carries none.
Outcome(code, status, content, retryAfter, errType, errCode) ==
    [code |-> code, status |-> status, content |-> content,
     retryAfter |-> retryAfter, errType |-> errType, errCode |-> errCode,
     model |-> <<>>]

\* the reply o with data.model = m
WithModel(o, m) == [o EXCEPT !.model = m]

NoOutcome == Outcome("", 0, FALSE, <<>>, "", "")

\* axios resolves on a 2xx status and rejects on every other
Resolved(o) == o.status \in 200..299

\* error.response.data?.error?.message || error.message of a rejected call
BackendMessage(o) ==
    IF o.status # 0 THEN <<"Request failed with status code ", ToString(o.status)>>
    ELSE IF o.code = "ECONNABORTED" THEN <<"timeout exceeded">>
    ELSE <<"connect ", o.code>>

\* GroqProvider.complete and completeJSON: the Error thrown, NoError on success
GroqError(p, o) ==
    IF Resolved(o)
    THEN IF o.content THEN NoError
         ELSE handleError(p, "Empty response from Groq API", <<>>, "")
    ELSE IF o.status # 0
    THEN CASE o.status = 401 ->
                handleError(p, "Invalid API key", <<>>, "Authentication")
           [] o.status = 429 ->
                handleError(p, "Rate limit exceeded", <<>>, "Rate Limit")
           [] o.status = 500 ->
                handleError(p, "Groq service error", <<>>, "Service")
           [] OTHER ->
                handleError(p, "${message}", BackendMessage(o), "API Error")
    ELSE IF o.code = "ECONNABORTED"
    THEN handleError(p, "Request timeout", <<>>, "Timeout")
    ELSE handleError(p, "Network error", <<>>, "Network")

\* OpenAIProvider.complete and completeJSON with handleAxiosError
OpenAIError(p, o) ==
    IF Resolved(o)
    THEN IF o.content THEN NoError
         ELSE handleError(p, "Empty response from OpenAI API", <<>>, "")
    ELSE IF o.status # 0
    THEN CASE o.status = 401 ->
                handleError(p, "Invalid API key or authentication failed", <<>>,
                            "Authentication")
           [] o.status = 429 ->
                IF Truthy(o.retryAfter)
                THEN handleError(p, "Rate limit exceeded. Retry after ${retryAfter} seconds.",
                                 o.retryAfter, "Rate Limit")
                ELSE handleError(p, "Rate limit exceeded. Please try again later.",
                                 <<>>, "Rate Limit")
           [] o.status = 400 /\ o.errType = "invalid_request_error" ->
                handleError(p, "Invalid request: ${message}", BackendMessage(o),
                            "Validation")
           [] o.status = 503 ->
                handleError(p, "OpenAI service temporarily unavailable", <<>>,
                            "Service")
           [] o.status >= 500 /\ o.status # 503 ->
                handleError(p, "OpenAI server error", <<>>, "Server")
           [] OTHER ->
                handleError(p, "${message}", BackendMessage(o), "API Error")
    ELSE IF o.code = "ECONNABORTED"
    THEN handleError(p, "Request timeout", <<>>, "Timeout")
    ELSE IF o.code = "ECONNREFUSED"
    THEN handleError(p, "Connection refused - check network", <<>>, "Network")
    ELSE handleError(p, "Network error", <<>>, "Network")

\* AzureOpenAIProvider.handleAxiosError on the rejection of the HTTP call
AzureAxiosError(p, o) ==
    IF o.status # 0
    THEN CASE o.status = 401 ->
                handleError(p, "Authentication failed. Check your API key or authentication method.",
                            <<>>, "Authentication")
           [] o.status = 403 ->
                handleError(p, "Access denied. Check RBAC permissions for your identity.",
                            <<>>, "Authorization")
           [] o.status = 404 ->
                handleError(p, "Deployment '${this.deploymentName}' not found. Check your deployment name.",
                            p.deploymentName, "Not Found")
           [] o.status = 429 ->
                IF Truthy(o.retryAfter)
                THEN handleError(p, "Rate limit exceeded. Retry after ${retryAfter} seconds.",
                                 o.retryAfter, "Rate Limit")
                ELSE handleError(p, "Rate limit exceeded. Please try again later.",
                                 <<>>, "Rate Limit")
           [] o.status = 400 /\ o.errCode = "content_filter" ->
                handleError(p, "Content filtered by Azure content policy", <<>>,
                            "Content Filter")
           [] o.status = 503 ->
                handleError(p, "Azure OpenAI service temporarily unavailable", <<>>,
                            "Service")
           [] o.status >= 500 /\ o.status # 503 ->
                handleError(p, "Azure OpenAI server error", <<>>, "Server")
           [] OTHER ->
                handleError(p, "${message}", BackendMessage(o), "API Error")
    ELSE IF o.code = "ECONNABORTED"
    THEN handleError(p, "Request timeout", <<>>, "Timeout")
    ELSE IF o.code = "ECONNREFUSED"
    THEN handleError(p, "Connection refused - check endpoint URL", <<>>, "Network")
    ELSE handleError(p, "Network error", <<>>, "Network")

\* AzureOpenAIProvider.complete and completeJSON once the HTTP call settled
AzureError(p, o) ==
    IF Resolved(o)
    THEN IF o.content THEN NoError
         ELSE handleError(p, "Empty response from Azure OpenAI API", <<>>, "")
    ELSE AzureAxiosError(p, o)

\* the Error of a completion whose HTTP call came to o, by concrete class
completeError(p, o) ==
    CASE p.type = GROQ -> GroqError(p, o)
      [] p.type = OPENAI -> OpenAIError(p, o)
      [] p.type = AZURE_OPENAI -> AzureError(p, o)

\* AzureOpenAIProvider.buildUrl: String.endsWith('/') and slice(0, -1)
buildUrl(p) ==
    LET baseUrl == IF p.endpoint # <<>> /\ p.endpoint[Len(p.endpoint)] = "/"
                   THEN SubSeq(p.endpoint, 1, Len(p.endpoint) - 1)
                   ELSE p.endpoint
    IN baseUrl \o <<"/openai/deployments/">> \o p.deploymentName
       \o <<"/chat/completions?api-version=">> \o p.apiVersion

\* the URL the completion POST goes to: buildUrl() for Azure, the path
\* under the axios instance's baseURL for the others
requestUrl(p) ==
    CASE p.type = GROQ -> <<"https://api.groq.com/openai/v1", "/chat/completions">>
      [] p.type = OPENAI -> <<"https://api.openai.com/v1", "/chat/completions">>
      [] p.type = AZURE_OPENAI -> buildUrl(p)

\* LLMProvider.getDefaultModel of the concrete class
getDefaultModel(p) ==
    CASE p.type = GROQ -> <<"llama3-8b-8192">>
      [] p.type = OPENAI -> p.defaultModel
      [] p.type = AZURE_OPENAI -> p.deploymentName

\* the `model` of the LLMResponse complete() returns for a request whose
\* model is m, on the reply o
responseModel(p, m, o) ==
    CASE p.type = GROQ -> OrElse(o.model, OrElse(m, getDefaultModel(p)))
      [] p.type = OPENAI -> OrElse(o.model, OrElse(m, p.defaultModel))
      [] p.type = AZURE_OPENAI -> OrElse(o.model, p.deploymentName)

----------------------------------------------------------------------------
(* The token cache of AzureOpenAIProvider.  A token is the number of the   *)
(* issue that produced it; cachedToken = null is NoToken.                  *)

NoToken == [accessToken |-> 0, expiresOn |-> 0]

\* lifetime getAzureCliToken assumes for a CLI token: one hour
CliTokenLifetime == 3600

\* lifetime getManagedIdentityToken assumes when the reply reports none
DefaultTokenLifetime == 3600

\* the cache test accepting a token at the instant of its expiry
CacheValid_atExpiry(ct, t) == ct # NoToken /\ ct.expiresOn >= t

\* the cache test without its comparison of the expiry with the clock
CacheValid_ignoresExpiry(ct, t) == ct # NoToken

\* this.cachedToken && this.cachedToken.expiresOn > new Date()
CacheValid(ct, t) == ct # NoToken /\ ct.expiresOn > t

\* the pair cached with the time of the fetch as its expiry
CliTokenPair_noLifetime(tok, t) ==
    [accessToken |-> tok, expiresOn |-> t]

\* getAzureCliToken: the pair cached for a token obtained at time t
CliTokenPair(tok, t) ==
    [accessToken |-> tok, expiresOn |-> t + CliTokenLifetime]

\* expires_in as the JSON of the metadata reply carries it: absent, a number
\* of seconds, or a string of decimal digits spelling that number
NoTtl == [kind |-> "absent", n |-> 0]

NumberTtl(n) == [kind |-> "number", n |-> n]

StringTtl(n) == [kind |-> "string", n |-> n]

\* Date.prototype.getSeconds of the instant t
getSeconds(t) == t % 60

\* Date.prototype.setSeconds(v) on the instant t: the instant afterwards
setSeconds(t, v) == t - getSeconds(t) + v

\* secs + x of JavaScript for the number secs: the sum when x is a number;
\* when x is a string the concatenation of the digits of secs and x, which
\* setSeconds converts back to a number
PlusTtl(secs, x) ==
    LET \* the number of decimal digits of n
        RECURSIVE Digits(_)
        Digits(n) == IF n < 10 THEN 1 ELSE 1 + Digits(n \div 10)
        RECURSIVE Pow10(_)
        Pow10(k) == IF k = 0 THEN 1 ELSE 10 * Pow10(k - 1)
    IN IF x.kind = "string" THEN secs * Pow10(Digits(x.n)) + x.n
       ELSE secs + x.n

\* getManagedIdentityToken: the pair cached for a token obtained at time t
\* whose reply carried expiresIn:
\* expiresOn.setSeconds(expiresOn.getSeconds() + (expiresIn || 3600)),
\* where undefined and 0 are falsy and a string of digits is not
ManagedIdentityTokenPair(tok, t, expiresIn) ==
    LET truthy == expiresIn.kind = "string"
                  \/ (expiresIn.kind = "number" /\ expiresIn.n # 0)
        ttl == IF truthy THEN expiresIn ELSE NumberTtl(DefaultTokenLifetime)
    IN [accessToken |-> tok,
        expiresOn |-> setSeconds(t, PlusTtl(getSeconds(t), ttl))]

\* the cache written one field at a time, the expiry of an earlier pair kept
StoreToken_fieldByField(ct, pair) ==
    IF ct = NoToken THEN pair ELSE [ct EXCEPT !.accessToken = pair.accessToken]

\* this.cachedToken = { accessToken, expiresOn }: one assignment of the pair
StoreToken(ct, pair) == pair

\* What the metadata endpoint's GET came to: an axios error code without a
\* response, or a status; a 200 reply carries access_token or not, and
\* expires_in.
ImdsReply(code, status, hasToken, expiresIn) ==
    [code |-> code, status |-> status, hasToken |-> hasToken,
     expiresIn |-> expiresIn]

NoReply == ImdsReply("", 0, FALSE, NoTtl)

\* error.message of the rejected or failed metadata call
ImdsMessage(o) ==
    IF o.status \in 200..299
    THEN <<"Failed to obtain access token from Managed Identity">>
    ELSE IF o.status # 0
    THEN <<"Request failed with status code ", ToString(o.status)>>
    ELSE IF o.code = "ECONNABORTED" THEN <<"timeout of 5000ms exceeded">>
    ELSE <<"connect ", o.code>>

\* getManagedIdentityToken's catch: text and arguments of the Error it throws
ManagedIdentityFailure(o) ==
    IF o.status \notin 200..299 /\ o.code \in {"ECONNREFUSED", "ETIMEDOUT"}
    THEN [text |-> "Not running in Azure environment or Managed Identity not configured",
          arg |-> <<>>]
    ELSE IF o.status = 400
    THEN [text |-> "Managed Identity not assigned or not authorized for Cognitive Services",
          arg |-> <<>>]
    ELSE [text |-> "Managed Identity authentication failed: ${message}",
          arg |-> ImdsMessage(o)]

\* getAzureCliToken: text of the Error a failed step throws
CliFailure(step) ==
    CASE step = "version" ->
           [text |-> "Azure CLI is not installed. Please install it from https://aka.ms/azure-cli",
            arg |-> <<>>]
      [] step = "session" ->
           [text |-> "Not logged in to Azure CLI. Please run: az login", arg |-> <<>>]
      [] step = "empty" ->
           [text |-> "Failed to obtain access token from Azure CLI", arg |-> <<>>]
      [] step = "fail" ->
           [text |-> "Command failed: ${cmd}", arg |-> <<"az account get-access-token">>]

\* an Error thrown by getAuthHeaders reaches handleAxiosError, which is not
\* an axios error there and is rethrown by handleError without a context
AuthError(p, f) == handleError(p, f.text, f.arg, "")

----------------------------------------------------------------------------
(* Health *)

\* LLMProvider constructor: the health record of a new instance
UnknownHealth ==
    [status |-> "unknown", lastChecked |-> 0, responseTime |-> -1,
     errorMessage |-> NoError]

\* checkHealth without its catch
checkHealth_rethrows(e, startTime, t) ==
    [raised |-> e # NoError,
     health |-> IF e = NoError
                THEN [status |-> "healthy", lastChecked |-> t,
                      responseTime |-> t - startTime, errorMessage |-> NoError]
                ELSE UnknownHealth]

\* LLMProvider.checkHealth once its completeJSON settled with error e (NoError
\* on success): whether it raises, and the health record it stores and returns
checkHealth(e, startTime, t) ==
    [raised |-> FALSE,
     health |-> IF e = NoError
                THEN [status |-> "healthy", lastChecked |-> t,
                      responseTime |-> t - startTime, errorMessage |-> NoError]
                ELSE [status |-> "unhealthy", lastChecked |-> t,
                      responseTime |-> -1, errorMessage |-> e]]

\* every request recording its outcome in the health record
healthAfter_everyRequestRecords(h, kind, e, startTime, t) ==
    checkHealth(e, startTime, t).health

\* this.health after a request of the given kind settled: checkHealth alone
\* assigns it
healthAfter(h, kind, e, startTime, t) ==
    IF kind = "checkHealth" THEN checkHealth(e, startTime, t).health ELSE h

\* LLMProvider.updateConfig
updateConfig(c, partial) == [timeout |-> partial.timeout]

----------------------------------------------------------------------------
(* Requests on the instance.  A request is a call of complete, completeJSON *)
(* or checkHealth; it runs to its next await in one step.  Its position is *)
(* the call it awaits: the az commands of getAzureCliToken ("version",     *)
(* "session", "token"), the metadata GET ("imds"), or the completion POST  *)
(* ("post").  The token command and the metadata GET finish outside the    *)
(* event loop first ("tokenOut", "imdsOut"): the child process has exited  *)
(* or the reply has arrived, and the awaiting code has not resumed yet.    *)

MaxReqs == 2
MaxFetches == 2

Kinds == {"complete", "completeJSON", "checkHealth"}

\* the locals of a request: its kind, Date.now() at its start, whether the
\* token came from the cache, the token it sends, the az commands it ran,
\* what the token command or the metadata GET came to, the token that
\* produced, whether it is the first request begun after a clearTokenCache,
\* the model of the LLMRequest it was called with, the URL of its POST
IdleReq ==
    [kind |-> "", startTime |-> 0, hit |-> FALSE, tok |-> 0, cmds |-> <<>>,
     cli |-> "", imds |-> NoReply, fetched |-> 0, next |-> FALSE,
     model |-> <<>>, url |-> <<>>]

\* `done` records the call that finished last: its name, whether it raised
\* and the Error, the az step or the metadata reply or the HTTP outcome that
\* made it fail, the boolean it returned, the model of its request, the
\* model of the response it returned and the token it sent.  This is the
\* record of a call that was no request.
Did(kind, out) ==
    [kind |-> kind, raised |-> FALSE, error |-> NoError, cli |-> "",
     imds |-> NoReply, http |-> NoOutcome, out |-> out,
     request |-> <<>>, model |-> <<>>, tok |-> 0]

regAll == <<providers, activeProvider, settings, env, last, pc, picked>>

\* the request r with locals q settles with error e (NoError: it succeeds)
\* after its HTTP call came to o
Settle(r, q, e, o) ==
    /\ done' = [kind |-> q.kind,
                raised |-> IF q.kind = "checkHealth"
                           THEN checkHealth(e, q.startTime, now).raised
                           ELSE e # NoError,
                error |-> e, cli |-> q.cli, imds |-> q.imds, http |-> o,
                out |-> FALSE,
                request |-> q.model, tok |-> q.tok,
                model |-> IF q.kind = "complete" /\ e = NoError
                          THEN responseModel(prov, q.model, o) ELSE <<>>]
    /\ health' = healthAfter(health, q.kind, e, q.startTime, now)
    /\ checked' = (checked \/ q.kind = "checkHealth")
    /\ rpc' = [rpc EXCEPT ![r] = "idle"]
    /\ rq' = [rq EXCEPT ![r] = IdleReq]

\* the request r moves on to await the call named by pos; the POST goes
\* to the URL built when it is issued
Await(r, q, pos) ==
    /\ rpc' = [rpc EXCEPT ![r] = pos]
    /\ rq' = [rq EXCEPT ![r] = IF pos = "post"
                                THEN [q EXCEPT !.url = requestUrl(prov)] ELSE q]
    /\ UNCHANGED <<done, health, checked>>

\* complete / completeJSON / checkHealth up to the first call they await:
\* getAuthHeaders with the cache test of the token getters, then the POST
\* (a new request takes the first free slot: the slots are names only)
Begin(r, kind, model) ==
    /\ rpc[r] = "idle"
    /\ \A s \in DOMAIN rpc : s < r => rpc[s] # "idle"
    /\ awaitNext' = FALSE
    /\ LET q == [IdleReq EXCEPT !.kind = kind,
                                !.startTime = IF kind = "checkHealth" THEN now ELSE 0,
                                !.next = awaitNext,
                                !.model = IF kind = "checkHealth"
                                          THEN getDefaultModel(prov) ELSE model]
       IN IF prov.type # AZURE_OPENAI \/ prov.authMethod = "apiKey"
          THEN Await(r, q, "post")
          ELSE IF prov.authMethod \notin {"azureCli", "managedIdentity"}
          THEN Settle(r, q,
                      AuthError(prov, [text |-> "Unsupported auth method: ${this.authMethod}",
                                       arg |-> <<prov.authMethod>>]),
                      NoOutcome)
          ELSE IF CacheValid(cachedToken, now)
          THEN Await(r, [q EXCEPT !.hit = TRUE, !.tok = cachedToken.accessToken],
                     "post")
          ELSE IF prov.authMethod = "azureCli"
          THEN Await(r, [q EXCEPT !.cmds = <<"az --version">>], "version")
          ELSE Await(r, q, "imds")
    /\ UNCHANGED <<regAll, prov, provConfig, cachedToken, now, azEnv, issued,
                   lastFetch, stale>>

\* getAzureCliToken resumes after `az --version`
VersionDone(r) ==
    /\ rpc[r] = "version"
    /\ IF azEnv.installed
       THEN Await(r, [rq[r] EXCEPT !.cmds = Append(@, "az account show")], "session")
       ELSE Settle(r, [rq[r] EXCEPT !.cli = "version"],
                   AuthError(prov, CliFailure("version")), NoOutcome)
    /\ UNCHANGED <<regAll, prov, provConfig, cachedToken, now, azEnv, issued,
                   lastFetch, stale, awaitNext>>

\* getAzureCliToken resumes after `az account show`
SessionDone(r) ==
    /\ rpc[r] = "session"
    /\ IF azEnv.loggedIn
       THEN Await(r, [rq[r] EXCEPT !.cmds = Append(@, "az account get-access-token")],
                  "token")
       ELSE Settle(r, [rq[r] EXCEPT !.cli = "session"],
                   AuthError(prov, CliFailure("session")), NoOutcome)
    /\ UNCHANGED <<regAll, prov, provConfig, cachedToken, now, azEnv, issued,
                   lastFetch, stale, awaitNext>>

\* the child process of `az account get-access-token` exits: it printed a
\* token, printed nothing, or failed
TokenExit(r, res) ==
    /\ rpc[r] = "token"
    /\ res = "token" => issued < MaxFetches
    /\ issued' = IF res = "token" THEN issued + 1 ELSE issued
    /\ Await(r, [rq[r] EXCEPT !.cli = res,
                              !.fetched = IF res = "token" THEN issued + 1 ELSE 0],
             "tokenOut")
    /\ UNCHANGED <<regAll, prov, provConfig, cachedToken, now, azEnv,
                   lastFetch, stale, awaitNext>>

\* getAzureCliToken resumes after the token command and getAuthHeaders
\* returns; complete issues the POST
TokenDone(r) ==
    /\ rpc[r] = "tokenOut"
    /\ IF rq[r].cli = "token"
       THEN LET pair == CliTokenPair(rq[r].fetched, now)
            IN /\ cachedToken' = StoreToken(cachedToken, pair)
               /\ lastFetch' = pair
               /\ Await(r, [rq[r] EXCEPT !.tok = rq[r].fetched], "post")
       ELSE /\ Settle(r, rq[r], AuthError(prov, CliFailure(rq[r].cli)), NoOutcome)
            /\ UNCHANGED <<cachedToken, lastFetch>>
    /\ UNCHANGED <<regAll, prov, provConfig, now, azEnv, issued, stale,
                   awaitNext>>

\* the metadata endpoint's GET settles outside the event loop
ImdsArrives(r, o) ==
    /\ rpc[r] = "imds"
    /\ o.hasToken => issued < MaxFetches
    /\ issued' = IF o.hasToken THEN issued + 1 ELSE issued
    /\ Await(r, [rq[r] EXCEPT !.imds = o,
                              !.fetched = IF o.hasToken THEN issued + 1 ELSE 0],
             "imdsOut")
    /\ UNCHANGED <<regAll, prov, provConfig, cachedToken, now, azEnv,
                   lastFetch, stale, awaitNext>>

\* getManagedIdentityToken resumes after the GET and getAuthHeaders returns;
\* complete issues the POST
ImdsDone(r) ==
    /\ rpc[r] = "imdsOut"
    /\ IF rq[r].imds.hasToken
       THEN LET pair == ManagedIdentityTokenPair(rq[r].fetched, now,
                                                 rq[r].imds.expiresIn)
            IN /\ cachedToken' = StoreToken(cachedToken, pair)
               /\ lastFetch' = pair
               /\ Await(r, [rq[r] EXCEPT !.tok = rq[r].fetched], "post")
       ELSE /\ Settle(r, rq[r],
                      AuthError(prov, ManagedIdentityFailure(rq[r].imds)), NoOutcome)
            /\ UNCHANGED <<cachedToken, lastFetch>>
    /\ UNCHANGED <<regAll, prov, provConfig, now, azEnv, issued, stale,
                   awaitNext>>

\* the cache dropped when the backend rejects the token it was sent
cacheAfterPost_dropsRejected(ct, e) ==
    IF e.context = "Authentication" THEN NoToken ELSE ct

\* this.cachedToken after the POST settled with error e: neither complete
\* nor handleAxiosError assigns it
cacheAfterPost(ct, e) == ct

\* the completion POST settles and the request returns or throws
PostDone(r, o) ==
    /\ rpc[r] = "post"
    /\ Settle(r, rq[r], completeError(prov, o), o)
    /\ cachedToken' = cacheAfterPost(cachedToken, completeError(prov, o))
    /\ UNCHANGED <<regAll, prov, provConfig, now, azEnv, issued,
                   lastFetch, stale, awaitNext>>

\* AzureOpenAIProvider.clearTokenCache
ClearTokenCache ==
    /\ prov.type = AZURE_OPENAI
    /\ cachedToken' = NoToken
    /\ stale' = 1..issued
    /\ awaitNext' = TRUE
    /\ rq' = [r \in DOMAIN rq |-> [rq[r] EXCEPT !.next = FALSE]]
    /\ done' = Did("clearTokenCache", FALSE)
    /\ UNCHANGED <<regAll, prov, provConfig, health, now, azEnv, rpc, issued,
                   lastFetch, checked>>

\* LLMProvider.updateConfig
UpdateConfig(partial) ==
    /\ provConfig' = updateConfig(provConfig, partial)
    /\ provConfig' # provConfig
    /\ done' = Did("updateConfig", FALSE)
    /\ UNCHANGED <<regAll, prov, cachedToken, health, now, azEnv, rpc, rq,
                   issued, lastFetch, stale, awaitNext, checked>>

\* LLMProvider.isConfigured
IsConfigured ==
    /\ done' = Did("isConfigured", isConfigured(prov))
    /\ UNCHANGED <<regAll, prov, provConfig, cachedToken, health, now, azEnv,
                   rpc, rq, issued, lastFetch, stale, awaitNext, checked>>

\* a registry operation on the instance: register, setActive, getActive, clear
RegistryOp ==
    /\ \/ SetReg(register(reg, prov))
       \/ SetReg(setActive(reg, prov.type).reg)
       \/ SetReg(getActive(reg).reg)
       \/ SetReg(clear(reg))
    /\ done' = Did("registry", FALSE)
    /\ UNCHANGED <<settings, env, last, pc, picked, prov, provConfig, cachedToken,
                   health, now, azEnv, rpc, rq, issued, lastFetch, stale,
                   awaitNext, checked>>

\* time passes: the clock moves on to a later instant
Instants == {3599, 3600, 3601}

Advance(t) ==
    /\ t > now
    /\ now' = t
    /\ UNCHANGED <<regAll, prov, provConfig, cachedToken, health, azEnv, rpc, rq,
                   done, issued, lastFetch, stale, awaitNext, checked>>

----------------------------------------------------------------------------
(* Inputs and specifications of the instance *)

\* what the completion POST can come to
HttpOutcomes ==
    {Outcome("", 200, c, <<>>, "", "") : c \in BOOLEAN}
    \cup {Outcome("", st, FALSE, <<>>, "", "") : st \in {401, 403, 404, 500, 502, 503}}
    \cup {Outcome("", 429, FALSE, ra, "", "") : ra \in {<<>>, <<"30">>}}
    \cup {Outcome("", 400, FALSE, <<>>, "", ""),
          Outcome("", 400, FALSE, <<>>, "invalid_request_error", ""),
          Outcome("", 400, FALSE, <<>>, "", "content_filter")}
    \cup {Outcome(code, 0, FALSE, <<>>, "", "") :
             code \in {"ECONNABORTED", "ECONNREFUSED", "ENOTFOUND"}}

FewHttpOutcomes == {Outcome("", 200, TRUE, <<>>, "", "")}

\* what the metadata GET can come to
ImdsReplies ==
    {ImdsReply("", 200, TRUE, ttl) : ttl \in {NoTtl, NumberTtl(7200)}}
    \cup {ImdsReply("", 200, FALSE, NoTtl), ImdsReply("", 400, FALSE, NoTtl),
          ImdsReply("", 500, FALSE, NoTtl)}
    \cup {ImdsReply(code, 0, FALSE, NoTtl) :
             code \in {"ECONNREFUSED", "ETIMEDOUT", "EHOSTUNREACH", "ECONNABORTED"}}

FewImdsReplies ==
    {ImdsReply("", 200, TRUE, ttl) : ttl \in {NoTtl, NumberTtl(7200)}}
    \cup {ImdsReply("ECONNREFUSED", 0, FALSE, NoTtl)}

\* the replies with every form of expires_in
TtlImdsReplies ==
    {ImdsReply("", 200, TRUE, ttl) :
        ttl \in {NoTtl, NumberTtl(0), NumberTtl(7200), StringTtl(7200)}}
    \cup {ImdsReply("ECONNREFUSED", 0, FALSE, NoTtl)}

\* the replies that carry a token
TokenImdsReplies ==
    {ImdsReply("", 200, TRUE, ttl) : ttl \in {NoTtl, NumberTtl(7200)}}

CliResults == {"token", "empty", "fail"}

\* the calls that post a completion
CompleteKinds == {"complete", "completeJSON"}

\* the machines: whether az is installed and whether it is logged in
Machines == [installed : BOOLEAN, loggedIn : BOOLEAN]

\* the instances the constructors build
AzureInputs(keys, auths) ==
    {AzureOpenAIProvider([endpoint |-> <<"https://host">>, apiKey |-> k,
                          deploymentName |-> <<"d">>, authMethod |-> a,
                          apiVersion |-> <<>>, timeout |-> 30000]) :
        k \in keys, a \in auths} \ {Threw}

InstanceInputs ==
    {GroqProvider([apiKey |-> k, timeout |-> 30000], e) :
        k \in {<<>>, <<" ">>, <<"k">>}, e \in SmallEnvInputs}
    \cup ({OpenAIProvider([apiKey |-> k, model |-> <<>>, timeout |-> 30000], e) :
              k \in {<<>>, <<" ">>, <<"k">>}, e \in SmallEnvInputs} \ {Threw})
    \cup AzureInputs({<<>>, <<" ">>, <<"k">>}, {"", "apiKey", "bogus"})
    \cup AzureInputs({<<>>, <<"k">>}, {"azureCli", "managedIdentity"})

TokenInputs == AzureInputs({<<>>}, {"azureCli", "managedIdentity"})

InitInstance(instances, machines, slots) ==
    /\ InitRegistry
    /\ NoTasks
    /\ settings = CHOOSE s \in SmallSettings : TRUE
    /\ env = CHOOSE e \in SmallEnvInputs : TRUE
    /\ prov \in instances
    /\ provConfig = [timeout |-> 30000]
    /\ cachedToken = NoToken
    /\ health = UnknownHealth
    /\ now = 0
    /\ azEnv \in machines
    /\ rpc = [r \in slots |-> "idle"]
    /\ rq = [r \in slots |-> IdleReq]
    /\ done = Did("new", FALSE)
    /\ issued = 0
    /\ lastFetch = NoToken
    /\ stale = {}
    /\ awaitNext = FALSE
    /\ checked = FALSE

\* the steps of the requests
InstanceStep(kinds, models, results, replies, outcomes) ==
    \/ \E r \in DOMAIN rpc : \E kind \in kinds : \E m \in models : Begin(r, kind, m)
    \/ \E r \in DOMAIN rpc : VersionDone(r)
    \/ \E r \in DOMAIN rpc : SessionDone(r)
    \/ \E r \in DOMAIN rpc : \E res \in results : TokenExit(r, res)
    \/ \E r \in DOMAIN rpc : TokenDone(r)
    \/ \E r \in DOMAIN rpc : \E o \in replies : ImdsArrives(r, o)
    \/ \E r \in DOMAIN rpc : ImdsDone(r)
    \/ \E r \in DOMAIN rpc : \E o \in outcomes : PostDone(r, o)

\* completions, one at a time, on an instance of any class, with everything
\* the HTTP call and the token services can come to
InitProvider == InitInstance(InstanceInputs, Machines, {1})

NextProvider ==
    \/ InstanceStep(CompleteKinds, {<<>>}, CliResults, ImdsReplies, HttpOutcomes)
    \/ \E t \in Instants : Advance(t)
    \/ ClearTokenCache
    \/ IsConfigured

SpecProvider == InitProvider /\ [][NextProvider]_vars

\* health checks among the other calls on an instance of any class
HealthInputs ==
    {GroqProvider([apiKey |-> <<"k">>, timeout |-> 30000], e) :
        e \in {CHOOSE e \in SmallEnvInputs : TRUE}}
    \cup ({OpenAIProvider([apiKey |-> <<"k">>, model |-> <<>>, timeout |-> 30000], e) :
              e \in {CHOOSE e \in SmallEnvInputs : TRUE}} \ {Threw})
    \cup AzureInputs({<<"k">>}, {"apiKey"})
    \cup AzureInputs({<<>>}, {"azureCli", "managedIdentity"})

\* one outcome of each kind of failure, and success
HealthHttpOutcomes ==
    {Outcome("", 200, c, <<>>, "", "") : c \in BOOLEAN}
    \cup {Outcome("", st, FALSE, <<>>, "", "") : st \in {401, 500}}
    \cup {Outcome(code, 0, FALSE, <<>>, "", "") : code \in {"ECONNABORTED", "ENOTFOUND"}}

InitHealth == InitInstance(HealthInputs, Machines, {1})

NextHealth ==
    \/ InstanceStep(Kinds, {<<>>}, CliResults, FewImdsReplies, HealthHttpOutcomes)
    \/ \E t \in {3601} : Advance(t)
    \/ \E c \in {[timeout |-> 1000], [timeout |-> 30000]} : UpdateConfig(c)
    \/ RegistryOp

SpecHealth == InitHealth /\ [][NextHealth]_vars

\* complete() calls, one at a time, on an Azure instance that fetches
\* tokens, over a clock that runs past every expiry; the POST succeeds, is
\* rejected or fails at the backend
InitCache == InitInstance(TokenInputs, Machines, {1})

CacheHttpOutcomes ==
    FewHttpOutcomes \cup {Outcome("", st, FALSE, <<>>, "", "") : st \in {401, 503}}

NextCache ==
    \/ InstanceStep({"complete"}, {<<>>}, CliResults, TtlImdsReplies, CacheHttpOutcomes)
    \/ \E t \in Instants \cup {7201} : Advance(t)
    \/ ClearTokenCache

SpecCache == InitCache /\ [][NextCache]_vars

\* concurrent complete() calls on an Azure instance that fetches tokens
\* (the token services answer with a token here; their failures are among
\* the inputs of the specifications with one caller)
InitToken ==
    InitInstance(TokenInputs, {[installed |-> TRUE, loggedIn |-> TRUE]}, 1..MaxReqs)

NextToken ==
    \/ InstanceStep({"complete"}, {<<>>}, {"token"}, TokenImdsReplies, FewHttpOutcomes)
    \/ \E t \in {3599, 3601} : Advance(t)
    \/ ClearTokenCache

SpecToken == InitToken /\ [][NextToken]_vars

\* completions on instances of every class whose requests name a model or
\* none and whose replies report one or none, the Azure instances built on
\* endpoints with and without trailing slashes
CompleteInputs ==
    {GroqProvider([apiKey |-> <<"k">>, timeout |-> 30000], e) :
        e \in {CHOOSE e \in SmallEnvInputs : TRUE}}
    \cup ({OpenAIProvider([apiKey |-> <<"k">>, model |-> m, timeout |-> 30000], e) :
              m \in {<<>>, <<"gpt-4">>}, e \in {CHOOSE e \in SmallEnvInputs : TRUE}}
          \ {Threw})
    \cup ({AzureOpenAIProvider([endpoint |-> ep, apiKey |-> <<"k">>,
                                deploymentName |-> <<"d">>, authMethod |-> a,
                                apiVersion |-> <<>>, timeout |-> 30000]) :
              ep \in {<<"https://host">>, <<"https://host", "/">>,
                      <<"https://host", "/", "/">>},
              a \in {"apiKey", "azureCli", "managedIdentity"}}
          \ {Threw})

CompleteOutcomes ==
    {WithModel(Outcome("", 200, c, <<>>, "", ""), m) :
        c \in BOOLEAN, m \in {<<>>, <<"b">>}}
    \cup {Outcome("", 500, FALSE, <<>>, "", "")}

InitComplete ==
    InitInstance(CompleteInputs, {[installed |-> TRUE, loggedIn |-> TRUE]}, {1})

CompleteModels == {<<>>, <<"m">>}

NextComplete ==
    InstanceStep(CompleteKinds, CompleteModels, {"token"}, TokenImdsReplies,
                 CompleteOutcomes)

SpecComplete == InitComplete /\ [][NextComplete]_vars

----------------------------------------------------------------------------
(* The timeout specification: factory runs on settings whose timeouts take *)
(* every kind of raw value (0 stands for an unset value as well).          *)

TimeoutSettings ==
    LET RawTimeouts == {0, -1, 500, 5000, 60000, 100000}
    IN {[s EXCEPT !.requestTimeoutMs = g, !.openaiTimeout = o, !.azureTimeout = a] :
           s \in SettingsOver({<<>>, <<"k">>}, {<<>>}, {<<>>, <<"https://host">>},
                              {<<>>}, {<<"d">>}, {"azureCli"}, {""}),
           g \in RawTimeouts, o \in RawTimeouts, a \in RawTimeouts}

InitTimeout ==
    /\ InitRegistry
    /\ NoInstance
    /\ NoTasks
    /\ settings \in TimeoutSettings
    /\ env \in SmallEnvInputs

NextTimeout ==
    /\ UNCHANGED instVars
    /\ \/ InitializeFromSettings
       \/ Reload
       \/ GetActive

SpecTimeout == InitTimeout /\ [][NextTimeout]_vars

----------------------------------------------------------------------------
(* The reload specification: factory runs on settings whose sections are   *)
(* absent, present, or make their constructor throw (an OpenAI model that  *)
(* is none, an Azure endpoint that is no URL, a blank deployment name).    *)

InitReload ==
    /\ InitRegistry
    /\ NoInstance
    /\ NoTasks
    /\ settings \in SettingsOver({<<>>, <<" ">>, <<"k">>}, {<<>>, <<"bad">>},
                                 {<<>>, <<"host">>, <<"https://host">>}, {<<>>},
                                 {<<" ">>, <<"d">>}, {"azureCli"},
                                 {"", GROQ, AZURE_OPENAI})
    /\ env \in SmallEnvInputs

SpecReload == InitReload /\ [][NextFactory]_vars

----------------------------------------------------------------------------
(* Helpers of the properties, written without the registry's own operators *)

Registered(t) == \E i \in 1..Len(providers) : providers[i].type = t

\* the provider registered under t (Registered(t) assumed)
EntryOf(t) == providers[CHOOSE i \in 1..Len(providers) : providers[i].type = t]

ConfiguredIndexes == {i \in 1..Len(providers) : isConfigured(providers[i])}

\* the first provider, in registration order, that reports itself configured
FirstConfigured ==
    IF ConfiguredIndexes = {} THEN NoProvider
    ELSE providers[CHOOSE i \in ConfiguredIndexes : \A j \in ConfiguredIndexes : i <= j]

\* the active pointer names a registered provider that reports itself configured
ActiveValid == Registered(activeProvider) /\ isConfigured(EntryOf(activeProvider))

Readers == {"get", "getAll", "getConfigured", "getActive", "getActiveType"}

FactoryRuns == {"initializeFromSettings", "reload"}

----------------------------------------------------------------------------
(* Properties *)

\* C1: in every reachable state the recorded active type is null or names a
\* registered provider that reports isConfigured() = true.
C1_ActivePointerValid == activeProvider = NULL \/ ActiveValid

\* C2: setActive(type) returns false and leaves the active type unchanged when
\* the type is unregistered or its provider is unconfigured; otherwise it
\* returns true and a getActive() issued next returns the provider registered
\* under that type.
C2_SetActiveContract ==
    last.op = "setActive" =>
        IF ~Registered(last.type) \/ ~isConfigured(EntryOf(last.type))
        THEN last.ok = FALSE /\ activeProvider = last.was
        ELSE last.ok = TRUE /\ getActive(reg).ret = EntryOf(last.type)

\* C2 witness: setActive refused a registered but unconfigured provider while
\* another provider was active.
C2_Witness ==
    /\ last.op = "setActive"
    /\ Registered(last.type)
    /\ ~isConfigured(EntryOf(last.type))
    /\ last.was # NULL
    /\ last.ok = FALSE

\* C3: getActive() with no active type recorded returns the first configured
\* provider and records its type (getActiveType() then returns it); with no
\* configured provider it returns absent and records nothing.
C3_LazySelection ==
    (last.op = "getActive" /\ last.was = NULL) =>
        IF ConfiguredIndexes # {}
        THEN /\ last.out = FirstConfigured
             /\ getActiveType(reg) = FirstConfigured.type
        ELSE /\ last.out = NoProvider
             /\ getActiveType(reg) = NULL

\* C3 witness: the lazy selection skipped an unconfigured provider registered
\* first.
C3_Witness ==
    /\ last.op = "getActive"
    /\ last.was = NULL
    /\ Len(providers) >= 2
    /\ ~isConfigured(providers[1])
    /\ last.out = providers[2]
    /\ activeProvider = providers[2].type

\* C4: getActive() never returns an unconfigured provider: when the recorded
\* active type does not name a registered, configured provider it falls back
\* to the first configured provider, or to absent when there is none.
C4_SelfHeals ==
    last.op = "getActive" =>
        /\ last.out = NoProvider \/ isConfigured(last.out)
        /\ ~(Registered(last.was) /\ isConfigured(EntryOf(last.was)))
              => last.out = FirstConfigured

\* C5: clear() empties the mapping and resets the active type to null; a
\* getActive() issued next returns absent and get(type) is absent for every
\* type.
C5_ClearResets ==
    last.op = "clear" =>
        /\ providers = <<>>
        /\ activeProvider = NULL
        /\ getActive(reg).ret = NoProvider
        /\ \A t \in Types : get(reg, t) = NoProvider

\* C5 witness: clear() ran while a provider was active.
C5_Witness == last.op = "clear" /\ last.was # NULL /\ providers = <<>>

\* the settings hold a Groq key and neither an OpenAI key nor an Azure section
OnlyGroqSection ==
    /\ NonBlank(settings.groqApiKey)
    /\ settings.openaiApiKey = <<>>
    /\ settings.azureEndpoint = <<>>

\* C6: reload() leaves the registry as clear() followed by a fresh factory run
\* leaves it, whatever was registered or selected before; reloading under
\* settings that hold only the Groq key makes getActive() return the Groq
\* provider built from that key.
C6_ReloadIsClearThenInit ==
    last.op = "reload" =>
        /\ reg = initializeFromSettings(EmptyRegistry, settings, env).reg
        /\ OnlyGroqSection =>
              /\ providers = <<GroqProvider([apiKey |-> settings.groqApiKey,
                                             timeout |-> 5000], env)>>
              /\ getActive(reg).ret = providers[1]

\* C6 witness: OpenAI was the active provider when reload() ran under settings
\* holding only the Groq key, and Groq is what remains.
C6_Witness ==
    /\ last.op = "reload"
    /\ last.was = OPENAI
    /\ OnlyGroqSection
    /\ ~Registered(OPENAI)
    /\ getActive(reg).ret.type = GROQ

\* C8 as stated: get, getAll, getConfigured, getActive and getActiveType leave
\* the mapping and the active pointer unchanged.
C8_ReadersChangeNothing ==
    [][last'.op \in Readers => UNCHANGED regVars]_vars

\* C8 as amended: get, getAll, getConfigured and getActiveType leave the
\* mapping and the active pointer unchanged; getActive leaves the mapping
\* unchanged and changes the active pointer only when it is null and some
\* registered provider is configured, recording the first configured one.
C8_ReadersFrame ==
    [][last'.op \in Readers =>
          /\ providers' = providers
          /\ activeProvider' # activeProvider =>
                /\ last'.op = "getActive"
                /\ activeProvider = NULL
                /\ ConfiguredIndexes # {}
                /\ activeProvider' = FirstConfigured.type]_vars

\* C8 witness: a getActive() call moved the active pointer off null.
C8_Witness ==
    /\ last.op = "getActive"
    /\ last.was = NULL
    /\ activeProvider # NULL

\* some task stands between the clear() and the factory run of its reload()
MidReload == \E t \in DOMAIN pc : pc[t] = "reload_cleared"

\* C7: registry mutations take effect atomically under every interleaving of
\* host tasks: the active type never names an unregistered provider, and
\* while a reload() stands between its clear() and its factory run the only
\* step taken is that factory run, so no other task sees the emptied registry.
C7_AtomicMutations ==
    /\ [](activeProvider # NULL => Registered(activeProvider))
    /\ [][MidReload =>
            /\ last'.op = "reload"
            /\ \A t \in DOMAIN pc :
                  IF pc[t] = "reload_cleared" THEN pc'[t] = "reload_await"
                  ELSE pc'[t] = pc[t]]_vars

\* C7 witness: a reload() stands between its clear() and its factory run
\* while another task's completion request is in flight.
C7_Witness ==
    /\ MidReload
    /\ \E t \in DOMAIN pc : pc[t] = "test_await"

\* C9: a factory run registers a backend exactly when its section holds the
\* minimum fields (Groq, OpenAI: a non-blank key; Azure: a non-blank endpoint
\* and a non-blank deployment name), skips every other section, and completes
\* without raising an error.
C9_RegistersExactlyPresentSections ==
    last.op \in FactoryRuns =>
        /\ last.ok
        /\ Registered(GROQ) <=> NonBlank(settings.groqApiKey)
        /\ Registered(OPENAI) <=> NonBlank(settings.openaiApiKey)
        /\ Registered(AZURE_OPENAI) <=>
              (NonBlank(settings.azureEndpoint) /\ NonBlank(settings.azureDeploymentName))

\* the activeProvider setting names a registered provider that is configured
NamedIsUsable ==
    /\ settings.activeProvider # ""
    /\ Registered(settings.activeProvider)
    /\ isConfigured(EntryOf(settings.activeProvider))

\* C10 as stated: after a factory run getActive() returns the provider the
\* activeProvider setting names when that provider is registered and
\* configured, and otherwise the first configured provider, or absent.
C10_ActiveAfterRun ==
    last.op \in FactoryRuns =>
        IF NamedIsUsable
        THEN getActive(reg).ret = EntryOf(settings.activeProvider)
        ELSE getActive(reg).ret = FirstConfigured

\* C10 as amended: the above holds of a factory run that ends without a
\* constructor throwing; a run that a constructor aborts leaves the active
\* pointer null, and getActive() then returns the first configured provider
\* among those registered before the throw, or absent.
C10_ActiveAfterCompletedRun ==
    last.op \in FactoryRuns =>
        IF last.ok
        THEN IF NamedIsUsable
             THEN getActive(reg).ret = EntryOf(settings.activeProvider)
             ELSE getActive(reg).ret = FirstConfigured
        ELSE /\ activeProvider = NULL
             /\ getActive(reg).ret = FirstConfigured

\* C10 witness: a completed run made the named provider active although
\* another configured provider was registered before it.
C10_Witness ==
    /\ last.op \in FactoryRuns
    /\ last.ok
    /\ NamedIsUsable
    /\ FirstConfigured # EntryOf(settings.activeProvider)
    /\ getActive(reg).ret = EntryOf(settings.activeProvider)


----------------------------------------------------------------------------
(* Properties of one provider instance *)

Blank(s) == Len(Trim(s)) = 0

\* the minimum fields as the specification lists them per backend
MinimumFields(p) ==
    IF p.type = AZURE_OPENAI
    THEN ~Blank(p.endpoint) /\ ~Blank(p.deploymentName)
    ELSE ~Blank(p.apiKey)

\* the minimum fields with the key the apiKey strategy sends
RequiredFields(p) ==
    /\ MinimumFields(p)
    /\ (p.type = AZURE_OPENAI /\ p.authMethod = "apiKey") => ~Blank(p.apiKey)

KnownStrategy(p) ==
    p.type = AZURE_OPENAI => p.authMethod \in {"apiKey", "azureCli", "managedIdentity"}

\* C11 as the specification states it: isConfigured() is false when the
\* minimum fields are absent and true when they are present (Groq/OpenAI: a
\* non-empty key; Azure: a non-empty endpoint and deployment name), for Azure
\* whichever of the three strategies is selected.
C11_ConfiguredIffMinimumFields ==
    (done.kind = "isConfigured" /\ KnownStrategy(prov))
        => (done.out <=> MinimumFields(prov))

\* C11, amended: isConfigured() is true exactly when the minimum fields are
\* present and, for Azure under the apiKey strategy, the API key is
\* non-empty too; under azureCli and managedIdentity no key is needed.
C11_ConfiguredIffRequiredFields ==
    (done.kind = "isConfigured" /\ KnownStrategy(prov))
        => (done.out <=> RequiredFields(prov))

C11_Witness ==
    /\ done.kind = "isConfigured"
    /\ prov.type = AZURE_OPENAI
    /\ prov.authMethod = "apiKey"
    /\ MinimumFields(prov)
    /\ Blank(prov.apiKey)
    /\ ~done.out

TokenFetchSequence == <<"az --version", "az account show", "az account get-access-token">>

IsPrefix(s, t) == Len(s) <= Len(t) /\ s = SubSeq(t, 1, Len(s))

\* the request r begins in this step
Begins(r) == rpc[r] = "idle" /\ rq'[r].kind # "" /\ rq[r].kind = ""

\* the request r obtains a fetched token in this step and issues its POST
Fetched(r) == rpc[r] \in {"tokenOut", "imdsOut"} /\ rpc'[r] = "post"

UsesCliTokens == prov.type = AZURE_OPENAI /\ prov.authMethod = "azureCli"

UsesTokens ==
    prov.type = AZURE_OPENAI /\ prov.authMethod \in {"azureCli", "managedIdentity"}

\* C12: under azureCli auth a complete() that begins with the cache empty
\* runs the version check, the session check and the token request, each
\* once and in that order, and caches the token for one hour; a complete()
\* that begins while a token is cached and its expiry is ahead runs none of
\* the three commands and sends the cached token.
C12_CliFetchOnceThenCached ==
    [][UsesCliTokens => \A r \in DOMAIN rpc :
        /\ (Begins(r) /\ cachedToken = NoToken)
              => (rpc'[r] = "version" /\ rq'[r].cmds = <<"az --version">>)
        /\ (Begins(r) /\ cachedToken # NoToken /\ now < cachedToken.expiresOn)
              => /\ rpc'[r] = "post"
                 /\ rq'[r].cmds = <<>>
                 /\ rq'[r].tok = cachedToken.accessToken
        /\ IsPrefix(rq'[r].cmds, TokenFetchSequence)
        /\ Fetched(r)
              => /\ rq'[r].cmds = TokenFetchSequence
                 /\ rq'[r].tok = rq[r].fetched
                 /\ cachedToken' = [accessToken |-> rq[r].fetched,
                                    expiresOn |-> now + 3600]]_vars

C12_Witness ==
    /\ UsesCliTokens
    /\ now = 3599
    /\ cachedToken.expiresOn = 3600
    /\ \E r \in DOMAIN rpc :
          /\ rpc[r] = "post"
          /\ rq[r].hit
          /\ rq[r].cmds = <<>>
          /\ rq[r].tok = cachedToken.accessToken

\* C13: with a token cached with expiry T, a token request made strictly
\* before T returns the cached token without a fetch; one made after T
\* fetches, and the fetched token with its own expiry replaces the cached pair.
C13_CachedUntilExpiry ==
    [][UsesTokens => \A r \in DOMAIN rpc :
        /\ (Begins(r) /\ cachedToken # NoToken /\ now < cachedToken.expiresOn)
              => /\ rpc'[r] = "post"
                 /\ rq'[r].hit
                 /\ rq'[r].tok = cachedToken.accessToken
                 /\ issued' = issued
        /\ (Begins(r) /\ cachedToken # NoToken /\ now > cachedToken.expiresOn)
              => (rpc'[r] \in {"version", "imds"} /\ ~rq'[r].hit)
        /\ Fetched(r)
              => /\ cachedToken'.accessToken = rq[r].fetched
                 /\ cachedToken'.accessToken # cachedToken.accessToken
                 /\ cachedToken'.expiresOn > now
                 /\ rq'[r].tok = rq[r].fetched]_vars

\* a request fetches although a token is cached: it began after the expiry
C13_Witness ==
    /\ UsesTokens
    /\ cachedToken # NoToken
    /\ cachedToken.expiresOn \in {7199, 7200}
    /\ now = 7201
    /\ \E r \in DOMAIN rpc : rpc[r] \in {"version", "imds"}

\* C14: after clearTokenCache() the next token request that begins performs
\* a fresh fetch and does not return a token issued before the clear.
C14_ClearForcesFreshFetch ==
    \A r \in DOMAIN rpc :
        (rq[r].next /\ rpc[r] = "post") => (~rq[r].hit /\ rq[r].tok \notin stale)

\* C15: whatever the interleaving of the requests, the cached pair is the
\* (token, expiry) pair of the fetch that finished last.
C15_PairOfOneFetch ==
    cachedToken # NoToken => cachedToken = lastFetch

C15_Witness ==
    /\ cachedToken # NoToken
    /\ \E r1, r2 \in DOMAIN rpc :
          /\ rpc[r1] = "post" /\ ~rq[r1].hit /\ rq[r1].tok = 1
          /\ rpc[r2] = "post" /\ ~rq[r2].hit /\ rq[r2].tok = 2
          /\ cachedToken.accessToken = 2
    /\ now > 0

\* the error classes of the specification, read off the thrown Error
ErrorClass(e) ==
    CASE e = NoError -> "None"
      [] e.context = "Authentication" -> "Authentication"
      [] e.context = "Rate Limit" -> "RateLimited"
      [] e.context = "Not Found" -> "NotFound"
      [] e.context = "Timeout" -> "Timeout"
      [] e.context = "Network" -> "NetworkUnreachable"
      [] e.context = "Service" -> "ServiceUnavailable"
      [] e.context = "" /\ e.text = CliFailure("version").text -> "AuthToolUnavailable"
      [] e.context = "" /\ e.text = CliFailure("session").text -> "AuthSessionMissing"
      [] e.context = "" /\ e.text = "Not running in Azure environment or Managed Identity not configured"
            -> "AuthEnvironmentMismatch"
      [] e.context = "" /\ e.text = "Managed Identity not assigned or not authorized for Cognitive Services"
            -> "AuthorizationDenied"
      [] e.context = "" /\ e.text \in {"Empty response from Groq API",
                                        "Empty response from OpenAI API",
                                        "Empty response from Azure OpenAI API"}
            -> "EmptyResponse"
      [] OTHER -> "Other"

\* C16: checkHealth() returns normally whatever its completion call came
\* to; after a failure the health is 'unhealthy' with a non-empty error
\* message, after a success it is 'healthy' with a response time.
C16_CheckHealthNeverRaises ==
    done.kind = "checkHealth"
        => /\ ~done.raised
           /\ done.error # NoError
                 => /\ health.status = "unhealthy"
                    /\ health.errorMessage = done.error
                    /\ Len(Message(health.errorMessage)) > 0
                    /\ health.errorMessage.text # ""
           /\ done.error = NoError
                 => /\ health.status = "healthy"
                    /\ health.responseTime >= 0
                    /\ health.errorMessage = NoError

\* a health check failed on the token fetch, before any HTTP call was made
C16_Witness ==
    /\ done.kind = "checkHealth"
    /\ done.cli = "session"
    /\ done.http = NoOutcome
    /\ health.status = "unhealthy"
    /\ ErrorClass(health.errorMessage) = "AuthSessionMissing"

\* the request that settles in this step, if it is a checkHealth
HealthCheckSettles ==
    \E r \in DOMAIN rpc :
        rq[r].kind = "checkHealth" /\ rpc[r] # "idle" /\ rpc'[r] = "idle"

\* C17: the health record is the constructor's 'unknown' record until the
\* first checkHealth() completes, and no step but the completion of a
\* checkHealth() changes it.
C17_OnlyCheckHealthWritesHealth ==
    [][/\ ~checked => health = UnknownHealth
       /\ ~checked' => health' = UnknownHealth
       /\ health' # health => HealthCheckSettles
       /\ checked' # checked => HealthCheckSettles]_vars

\* a failed completion, an updateConfig and a registration have happened and
\* a token was fetched, and the health is still the constructor's
C17_Witness ==
    /\ ~checked
    /\ health = UnknownHealth
    /\ done.kind = "complete"
    /\ done.raised
    /\ issued > 0
    /\ provConfig.timeout = 1000
    /\ Len(providers) > 0

\* C18 as the specification states it: complete() fails as Authentication
\* on 401, as RateLimited on 429 with the retry-after value in the message
\* whenever the header is present, as NotFound naming the deployment on a
\* 404 from Azure, and as EmptyResponse on a success with empty content.
C18_ErrorClasses ==
    (done.kind = "complete" /\ done.http # NoOutcome)
        => /\ done.http.status = 401 => ErrorClass(done.error) = "Authentication"
           /\ done.http.status = 429
                 => /\ ErrorClass(done.error) = "RateLimited"
                    /\ done.http.retryAfter # <<>>
                          => done.error.arg = done.http.retryAfter
           /\ (done.http.status = 404 /\ prov.type = AZURE_OPENAI)
                 => /\ ErrorClass(done.error) = "NotFound"
                    /\ done.error.arg = prov.deploymentName
           /\ (Resolved(done.http) /\ ~done.http.content)
                 => (done.raised /\ ErrorClass(done.error) = "EmptyResponse")

\* C19 as the specification states it: a completion whose HTTP call or
\* whose token fetch timed out locally fails with the Timeout error.
C19_TimeoutsAreTimeouts ==
    (done.kind \in {"complete", "completeJSON"}
       /\ (done.http.code = "ECONNABORTED" \/ done.imds.code = "ECONNABORTED"))
        => ErrorClass(done.error) = "Timeout"

\* the connection to the metadata endpoint could not be established
Unreachable(o) == o.status = 0 /\ o.code \notin {"", "ECONNABORTED"}

\* C20 as the specification states it: a missing az CLI fails complete()
\* as AuthToolUnavailable, a missing az login as AuthSessionMissing, an
\* unreachable metadata endpoint as AuthEnvironmentMismatch and a refusal
\* of the metadata service as authorization denied; with azureCli auth and
\* no CLI installed every complete() fails as AuthToolUnavailable.
C20_TokenFailuresDistinct ==
    done.kind = "complete"
        => /\ done.cli = "version" => ErrorClass(done.error) = "AuthToolUnavailable"
           /\ done.cli = "session" => ErrorClass(done.error) = "AuthSessionMissing"
           /\ Unreachable(done.imds)
                 => ErrorClass(done.error) = "AuthEnvironmentMismatch"
           /\ done.imds.status = 400
                 => ErrorClass(done.error) = "AuthorizationDenied"
           /\ (UsesCliTokens /\ ~azEnv.installed)
                 => ErrorClass(done.error) = "AuthToolUnavailable"

----------------------------------------------------------------------------
(* Properties of the responses, the timeouts, the credentials and the      *)
(* failures                                                                *)

\* C21 as the specification states it: a successful complete() returns as
\* the response's model the model the backend reports when it reports one,
\* otherwise the request's model when that is non-empty, otherwise the
\* provider's default model, for every provider.
C21_ResponseModelFallback ==
    (done.kind = "complete" /\ ~done.raised /\ done.http # NoOutcome)
        => done.model = IF done.http.model # <<>> THEN done.http.model
                        ELSE IF done.request # <<>> THEN done.request
                        ELSE getDefaultModel(prov)

\* C22 as the specification states it: after a factory run every registered
\* provider carries a request timeout within [1000 ms, 60000 ms], whatever
\* raw timeouts the settings hold.
C22_TimeoutClamped ==
    last.op \in FactoryRuns
        => \A i \in 1..Len(providers) :
              providers[i].timeout >= 1000 /\ providers[i].timeout <= 60000

\* C23 as the specification states it: after a factory run a Groq or OpenAI
\* key present only in the environment (the setting empty) has given a
\* registered, configured provider, and with both the setting and the
\* environment variable set the provider's credential is the setting's.
C23_EnvironmentKeyConfigures ==
    (last.op \in FactoryRuns /\ last.ok)
        => /\ (settings.groqApiKey = <<>> /\ NonBlank(env.GROQ_API_KEY))
                 => (Registered(GROQ) /\ isConfigured(EntryOf(GROQ)))
           /\ (settings.openaiApiKey = <<>> /\ NonBlank(env.OPENAI_API_KEY))
                 => (Registered(OPENAI) /\ isConfigured(EntryOf(OPENAI)))
           /\ (NonBlank(settings.groqApiKey) /\ NonBlank(env.GROQ_API_KEY))
                 => (Registered(GROQ) /\ EntryOf(GROQ).apiKey = settings.groqApiKey)
           /\ (NonBlank(settings.openaiApiKey) /\ NonBlank(env.OPENAI_API_KEY))
                 => (Registered(OPENAI) /\ EntryOf(OPENAI).apiKey = settings.openaiApiKey)

\* C24 as the specification states it: complete() on an HTTP status of 500
\* or above fails as ServiceUnavailable, for each provider and each status.
C24_ServerErrorsAreServiceUnavailable ==
    (done.kind = "complete" /\ done.http.status >= 500)
        => (done.raised /\ ErrorClass(done.error) = "ServiceUnavailable")

\* the message of the az step that failed: the token request has one
\* message for a failed command and for an empty output
StepMessage(step) ==
    CASE step = "version" ->
           "Azure CLI is not installed. Please install it from https://aka.ms/azure-cli"
      [] step = "session" -> "Not logged in to Azure CLI. Please run: az login"
      [] step \in {"empty", "fail"} -> "Failed to obtain access token from Azure CLI"

\* C25 as the specification states it: the az token fetch runs the version
\* check, the session check and the token request in this order and stops
\* at the first that fails; a failed step, the token request included,
\* fails complete() with the message of that step and caches nothing.
C25_CliStepsFailWithOwnMessage ==
    /\ \A r \in DOMAIN rpc : IsPrefix(rq[r].cmds, TokenFetchSequence)
    /\ (done.kind = "complete" /\ done.cli \in {"version", "session", "empty", "fail"})
          => /\ done.raised
             /\ done.http = NoOutcome
             /\ done.error.text = StepMessage(done.cli)
             /\ issued = 0 => cachedToken = NoToken

\* C26 as the specification states it: under managedIdentity auth the
\* cached expiry is the time of the fetch plus the expires_in seconds the
\* metadata reply reports, whatever value it reports, and the time of the
\* fetch plus 3600 seconds only when the reply reports none.
C26_ExpiryAsReported ==
    [][\A r \in DOMAIN rpc :
          (rpc[r] = "imdsOut" /\ rpc'[r] = "post")
             => cachedToken'.expiresOn =
                   now + (IF rq[r].imds.expiresIn.kind = "absent" THEN 3600
                          ELSE rq[r].imds.expiresIn.n)]_vars

\* s without the slashes at its end
RECURSIVE StripSlashes(_)
StripSlashes(s) ==
    IF s # <<>> /\ s[Len(s)] = "/" THEN StripSlashes(SubSeq(s, 1, Len(s) - 1))
    ELSE s

\* C27 as the specification states it: the URL of the Azure POST is the
\* endpoint without any of its trailing slashes, then /openai/deployments/,
\* the deployment name, /chat/completions?api-version= and the API version.
C27_UrlWithoutTrailingSlashes ==
    \A r \in DOMAIN rpc :
        (prov.type = AZURE_OPENAI /\ rpc[r] = "post")
            => rq[r].url = StripSlashes(prov.endpoint)
                           \o <<"/openai/deployments/">> \o prov.deploymentName
                           \o <<"/chat/completions?api-version=">> \o prov.apiVersion

\* the request r returns or throws in this step, after its POST
PostSettles(r) == rpc[r] = "post" /\ rpc'[r] = "idle"

\* C28: a completion whose POST settles, whether it succeeds or fails (a
\* 401 included), leaves the cached token unchanged and fetches nothing; a
\* complete() that begins after a failed one, before the recorded expiry
\* and without a clearTokenCache() in between, sends the same token again
\* and runs no fetch.
C28_FailedCompletionKeepsToken ==
    [][UsesTokens => \A r \in DOMAIN rpc :
        /\ PostSettles(r) => (cachedToken' = cachedToken /\ issued' = issued)
        /\ (/\ Begins(r)
            /\ done.kind = "complete" /\ done.raised /\ done.http # NoOutcome
            /\ cachedToken # NoToken /\ now < cachedToken.expiresOn)
              => /\ rpc'[r] = "post"
                 /\ rq'[r].hit
                 /\ rq'[r].cmds = <<>>
                 /\ rq'[r].tok = done.tok
                 /\ issued' = issued]_vars

\* a complete() is in flight with the token the backend rejected with a
\* 401 just before, taken from the cache
C28_Witness ==
    /\ UsesTokens
    /\ done.kind = "complete"
    /\ done.raised
    /\ done.http.status = 401
    /\ done.tok # 0
    /\ \E r \in DOMAIN rpc :
          rpc[r] = "post" /\ rq[r].hit /\ rq[r].tok = done.tok
    /\ issued = 1

\* the token fetch of the request r fails in this step
FetchFails(r) ==
    rpc[r] \in {"version", "session", "tokenOut", "imdsOut"} /\ rpc'[r] = "idle"

\* C29: a token is stored in the cache only by a fetch that obtained one
\* (clearTokenCache() alone empties it); a failed az or metadata fetch
\* leaves cachedToken as it was; a request is given the cached token only
\* when its recorded expiry is strictly later than the time of the test.
C29_CacheWrittenOnlyByFetch ==
    [][UsesTokens =>
        /\ cachedToken' # cachedToken
              => \/ cachedToken' = NoToken /\ done'.kind = "clearTokenCache"
                 \/ \E r \in DOMAIN rpc :
                       /\ Fetched(r)
                       /\ rq[r].fetched # 0
                       /\ cachedToken'.accessToken = rq[r].fetched
        /\ \A r \in DOMAIN rpc :
              /\ FetchFails(r) => (done'.raised /\ cachedToken' = cachedToken)
              /\ (Begins(r) /\ rq'[r].hit)
                    => /\ cachedToken # NoToken
                       /\ cachedToken.expiresOn > now
                       /\ rq'[r].tok = cachedToken.accessToken]_vars

\* a fetch failed at the very instant the cached token expired: the token
\* was not handed out, and it is still in the cache
C29_Witness ==
    /\ UsesTokens
    /\ cachedToken # NoToken
    /\ cachedToken.expiresOn = now
    /\ done.kind = "complete"
    /\ done.raised
    /\ done.http = NoOutcome
    /\ issued = 1

\* the OpenAI section of the settings makes the constructor throw
OpenAISectionThrows ==
    /\ NonBlank(settings.openaiApiKey)
    /\ settings.openaiModel # <<>>
    /\ settings.openaiModel \notin OpenAIModels

\* C30: when a constructor throws during reload() the registry holds the
\* providers of the sections before the failing one and nothing of the
\* failing or the later sections, the activeProvider setting is not
\* applied and the active type is null; a getActive() issued next returns
\* the first configured provider and records it.
C30_FailedReloadKeepsPartialRegistry ==
    (last.op = "reload" /\ ~last.ok)
        => /\ activeProvider = NULL
           /\ Registered(GROQ) <=> NonBlank(settings.groqApiKey)
           /\ Registered(OPENAI)
                 <=> (NonBlank(settings.openaiApiKey) /\ ~OpenAISectionThrows)
           /\ ~Registered(AZURE_OPENAI)
           /\ getActive(reg).ret = FirstConfigured
           /\ getActive(reg).reg.activeProvider =
                 (IF ConfiguredIndexes = {} THEN NULL ELSE FirstConfigured.type)

\* a provider was active when reload() ran; the OpenAI constructor threw,
\* the Groq provider registered before it remains, the Azure section
\* after it was not reached and the activeProvider setting was not applied
C30_Witness ==
    /\ last.op = "reload"
    /\ ~last.ok
    /\ last.was # NULL
    /\ OpenAISectionThrows
    /\ Registered(GROQ)
    /\ AzureSectionPresent(settings)
    /\ IsValidURL(settings.azureEndpoint)
    /\ ~Registered(AZURE_OPENAI)
    /\ settings.activeProvider = GROQ
    /\ activeProvider = NULL

====
